---------------------------- MODULE Spec2Model ----------------------------
(* Dual-mode pagination negotiation of the openchoreo API:                 *)
(*   - the feature-flag store  (config.LoadFeatureFlags and friends),      *)
(*   - the cursor validator    (handlers.validateCursor),                  *)
(*   - the mode/limit resolver (handlers.parseCursorParams).               *)
(* Strings that the code inspects character by character (the cursor and   *)
(* the limit parameter) are sequences of byte values; strings that are     *)
(* only compared (the pagination mode, the environment value, the error    *)
(* messages) are TLA+ strings.                                             *)
EXTENDS Integers, Sequences, FiniteSets, TLC

VARIABLES
    globalConfig,   \* config.globalConfig: Nil or the cached *Config
    lastLoadTime,   \* config.lastLoadTime: ZeroTime or the time of the last publish
    now,            \* the wall clock read by time.Now / time.Since, in minutes
    env,            \* the CURSOR_PAGINATION_ENABLED environment variable
    file,           \* the content of config/flags.json
    req,            \* the query of the request handled last (NoRequest before the first)
    res,            \* what parseCursorParams returned for it (NoResult before the first)
    flagAtCall,     \* history: what GetCursorPaginationEnabled() answered, or would
                    \* have answered, at the moment that request was handled
    repeated,       \* history: the request handled last had the same query and met
                    \* the same flag as the request handled before it
    token,          \* the cursor string handed to validateCursor
    verdict,        \* what validateCursor returned for it (NoVerdict before the call)
    returned,       \* history: what the last direct call of the store returned, and
                    \* the environment and file it ran against (NoReturn before it)
    pc,             \* per goroutine: the statement of the store it is about to execute
    configMutex,    \* config.configMutex: the goroutines holding it for writing / reading
    heap,           \* the Config instances allocated by LoadFeatureFlags, by address
    ptr,            \* per goroutine: the *Config in its local variable or return value
    err,            \* per goroutine: the error LoadFeatureFlags is returning
    built,          \* history: the instances whose construction is finished
    old,            \* history: the instances that existed when InvalidateCache last returned
    forbidden,      \* history, per goroutine: the instances that were old when its call began
    overtaken,      \* history, per goroutine: what another goroutine did last to the
                    \* cache while this one, after its miss, had not yet got the lock
    upstream,       \* the error the query collaborator returned (NoError for nil)
    kind,           \* the ErrorKind the classifier derived from it (NoKind before)
    response        \* what was written to the http.ResponseWriter (NoResponse before)

vars == <<globalConfig, lastLoadTime, now, env, file, req, res, flagAtCall, repeated,
          token, verdict, returned,
          pc, configMutex, heap, ptr, err, built, old, forbidden, overtaken,
          upstream, kind, response>>

\* the variables of the error classifier and the response it leads to
classifierVars == <<upstream, kind, response>>

\* the goroutines of the process and what the concurrent view adds to the store
goroutineVars == <<pc, configMutex, heap, ptr, err, built, old, forbidden, overtaken>>

\* the history of the direct calls of the store
callVars == <<returned>>

\* the variables of the validator alone
validatorVars == <<token, verdict>>

-----------------------------------------------------------------------------
(* Program constants                                                       *)

DefaultLimit == 16
MaxLimit == 1024
MaxCursorLength == 512
MaxDecodedCursorLength == 512
cacheTTL == 5
\* time.Time{}: the zero time, long before any reading of the clock
ZeroTime == -1000000

(* Bounds of the model                                                     *)

\* the clock stops advancing here (a snapshot taken at 0 has expired by then)
MaxTime == 5
\* decimal limits -SmallInts..SmallInts are enumerated
SmallInts == 3
\* decimal limits MaxLimit-NearMax..MaxLimit+NearMax are enumerated
NearMax == 2
\* parsed magnitudes are kept exactly up to this value and saturate above it
\* (the code only compares the parsed value with 0 and with MaxLimit)
IntCap == 100000

-----------------------------------------------------------------------------
(* Bytes and small helpers                                                 *)

Nil == [nil |-> TRUE]

Min(a, b) == IF a < b THEN a ELSE b

\* n copies of the sequence s
Repeat(s, n) == [i \in 1..(n * Len(s)) |-> s[((i - 1) % Len(s)) + 1]]

IsDigit(c) == c >= 48 /\ c <= 57

-----------------------------------------------------------------------------
(* encoding/base64: StdEncoding.DecodeString and URLEncoding.DecodeString  *)
(* (both padded, non-strict).  A decoder returns [ok, bytes].              *)

\* decodeMap of the standard alphabet: 6-bit value of c, or 255
stdDecodeMap(c) ==
    IF c >= 65 /\ c <= 90 THEN c - 65
    ELSE IF c >= 97 /\ c <= 122 THEN c - 71
    ELSE IF IsDigit(c) THEN c + 4
    ELSE IF c = 43 THEN 62
    ELSE IF c = 47 THEN 63
    ELSE 255

\* decodeMap of the URL-safe alphabet: '-' and '_' replace '+' and '/'
urlDecodeMap(c) ==
    IF c >= 65 /\ c <= 90 THEN c - 65
    ELSE IF c >= 97 /\ c <= 122 THEN c - 71
    ELSE IF IsDigit(c) THEN c + 4
    ELSE IF c = 45 THEN 62
    ELSE IF c = 95 THEN 63
    ELSE 255

decodeMap(enc, c) == IF enc = "std" THEN stdDecodeMap(c) ELSE urlDecodeMap(c)

IsNewline(c) == c = 10 \/ c = 13

\* the decoder skips '\n' and '\r' wherever they stand
StripNewlines(s) == SelectSeq(s, LAMBDA c : ~IsNewline(c))

\* Encoding.DecodeString.  What is left after the newlines must be whole
\* 4-character quanta of alphabet characters, the last one possibly ending in
\* one or two '='; a quantum with p padding characters yields 3 - p bytes,
\* and the unused low bits of its last character are not checked.
DecodeString(enc, s) ==
    LET t == StripNewlines(s)
        n == Len(t)
        pad == IF n >= 1 /\ t[n] = 61
               THEN IF n >= 2 /\ t[n - 1] = 61 THEN 2 ELSE 1
               ELSE 0
        body == n - pad
        wellFormed == /\ n % 4 = 0
                      /\ \A i \in 1..body : decodeMap(enc, t[i]) # 255
        v(i) == IF i <= body THEN decodeMap(enc, t[i]) ELSE 0
        count == (n \div 4) * 3 - pad
        byte(k) == LET q == 4 * ((k - 1) \div 3)
                       r == (k - 1) % 3
                   IN  IF r = 0 THEN v(q + 1) * 4 + v(q + 2) \div 16
                       ELSE IF r = 1 THEN (v(q + 2) % 16) * 16 + v(q + 3) \div 4
                       ELSE (v(q + 3) % 4) * 64 + v(q + 4)
    IN  IF wellFormed
        THEN [ok |-> TRUE, bytes |-> [k \in 1..count |-> byte(k)]]
        ELSE [ok |-> FALSE, bytes |-> <<>>]

-----------------------------------------------------------------------------
(* unicode/utf8.Valid                                                      *)

IsCont(c) == c >= 128 /\ c <= 191

\* length of the encoding announced by a lead byte, 0 for a byte that
\* cannot start an encoding (a continuation byte, C0, C1, F5..FF)
utf8Width(c) ==
    IF c < 128 THEN 1
    ELSE IF c >= 194 /\ c <= 223 THEN 2
    ELSE IF c >= 224 /\ c <= 239 THEN 3
    ELSE IF c >= 240 /\ c <= 244 THEN 4
    ELSE 0

\* the second byte a lead byte accepts: this is what excludes overlong
\* encodings, surrogates and code points above U+10FFFF
utf8SecondOk(lead, c) ==
    IF lead = 224 THEN c >= 160 /\ c <= 191
    ELSE IF lead = 237 THEN c >= 128 /\ c <= 159
    ELSE IF lead = 240 THEN c >= 144 /\ c <= 191
    ELSE IF lead = 244 THEN c >= 128 /\ c <= 143
    ELSE IsCont(c)

\* b[i] starts a complete well-formed encoding
utf8StartsAt(b, i) ==
    LET w == utf8Width(b[i])
    IN  /\ w # 0
        /\ i + w - 1 <= Len(b)
        /\ w >= 2 => utf8SecondOk(b[i], b[i + 1])
        /\ \A k \in 2..(w - 1) : IsCont(b[i + k])

\* b[i] is a continuation byte of the encoding started k bytes before it
utf8CoveredAt(b, i) ==
    \E k \in 1..3 :
        /\ i - k >= 1
        /\ utf8Width(b[i - k]) > k
        /\ \A m \in 1..(k - 1) : IsCont(b[i - m])

\* utf8.Valid: every byte either starts a well-formed encoding or continues one
isValidUTF8(b) ==
    \A i \in 1..Len(b) :
        IF IsCont(b[i]) THEN utf8CoveredAt(b, i) ELSE utf8StartsAt(b, i)

-----------------------------------------------------------------------------
(* isValidUTF8 as handlers/helpers.go writes it out: a scan that jumps     *)
(* from lead byte to lead byte.  The scan visits every byte that is no     *)
(* continuation byte and fails on a continuation byte it visits, so it     *)
(* succeeds exactly when every byte starts an encoding or continues one.   *)

\* the number of bytes the scan consumes at a lead byte, 0 where it fails
\* (80..BF and F8..FF)
utf8WidthHelpers(c) ==
    IF c < 128 THEN 1
    ELSE IF c < 192 \/ c >= 248 THEN 0
    ELSE IF c < 224 THEN 2
    ELSE IF c < 240 THEN 3
    ELSE 4

\* the scan passes b[i]: the bytes it consumes exist and, after the lead
\* byte, have the form 10xxxxxx
utf8StartsAtHelpers(b, i) ==
    LET w == utf8WidthHelpers(b[i])
    IN  /\ w # 0
        /\ i + w - 1 <= Len(b)
        /\ \A k \in 1..(w - 1) : IsCont(b[i + k])

\* b[i] is consumed together with the lead byte k bytes before it
utf8CoveredAtHelpers(b, i) ==
    \E k \in 1..3 :
        /\ i - k >= 1
        /\ utf8WidthHelpers(b[i - k]) > k
        /\ \A m \in 1..(k - 1) : IsCont(b[i - m])

isValidUTF8Helpers(b) ==
    \A i \in 1..Len(b) :
        IF IsCont(b[i]) THEN utf8CoveredAtHelpers(b, i) ELSE utf8StartsAtHelpers(b, i)

-----------------------------------------------------------------------------
(* handlers.validateCursor: "" when the cursor is accepted, otherwise the    *)
(* message of the rule that rejected it                                    *)

ErrNone == ""
ErrCursorTooLong == "cursor exceeds maximum allowed length"
ErrMalformedBase64 == "cursor format is invalid: malformed base64 encoding"
ErrNullBytes == "cursor format is invalid: contains null bytes"
ErrDecodedTooLong == "cursor exceeds maximum decoded size"
ErrNotUTF8 == "cursor format is invalid: not valid UTF-8"
ErrInvalidMode == "invalid pagination mode"
ErrLimitFormat == "invalid limit format"
ErrLimitNotPositive == "limit must be positive"

\* variant: only the character set is inspected, not the structure
decodeCursorCharsetOnly(cursor) ==
    [ok |-> \A i \in 1..Len(cursor) :
                \/ stdDecodeMap(cursor[i]) # 255
                \/ urlDecodeMap(cursor[i]) # 255
                \/ cursor[i] = 61,
     bytes |-> <<>>]

\* the decoded bytes of a cursor: standard alphabet first, URL-safe as fallback
decodeCursor(cursor) ==
    LET std == DecodeString("std", cursor)
    IN  IF std.ok THEN std ELSE DecodeString("url", cursor)

\* variant: the encoded length is limited to 1024 characters
validateCursorMax1024(cursor) ==
    IF cursor = <<>> THEN ErrNone
    ELSE IF Len(cursor) > 1024 THEN ErrCursorTooLong
    ELSE LET dec == decodeCursor(cursor)
             decoded == dec.bytes
         IN  IF ~dec.ok THEN ErrMalformedBase64
             ELSE IF \E i \in 1..Len(decoded) : decoded[i] = 0 THEN ErrNullBytes
             ELSE IF Len(decoded) > MaxDecodedCursorLength THEN ErrDecodedTooLong
             ELSE IF Len(decoded) > 0 /\ ~isValidUTF8(decoded) THEN ErrNotUTF8
             ELSE ErrNone

\* variant: the decoded bytes are not searched for null bytes
validateCursorNoNullCheck(cursor) ==
    IF cursor = <<>> THEN ErrNone
    ELSE IF Len(cursor) > MaxCursorLength THEN ErrCursorTooLong
    ELSE LET dec == decodeCursor(cursor)
             decoded == dec.bytes
         IN  IF ~dec.ok THEN ErrMalformedBase64
             ELSE IF Len(decoded) > MaxDecodedCursorLength THEN ErrDecodedTooLong
             ELSE IF Len(decoded) > 0 /\ ~isValidUTF8(decoded) THEN ErrNotUTF8
             ELSE ErrNone

validateCursor(cursor) ==
    IF cursor = <<>> THEN ErrNone
    ELSE IF Len(cursor) > MaxCursorLength THEN ErrCursorTooLong
    ELSE LET dec == decodeCursor(cursor)
             decoded == dec.bytes
         IN  IF ~dec.ok THEN ErrMalformedBase64
             ELSE IF \E i \in 1..Len(decoded) : decoded[i] = 0 THEN ErrNullBytes
             ELSE IF Len(decoded) > MaxDecodedCursorLength THEN ErrDecodedTooLong
             ELSE IF Len(decoded) > 0 /\ ~isValidUTF8(decoded) THEN ErrNotUTF8
             ELSE ErrNone

\* validateCursor of handlers/helpers.go, which calls the isValidUTF8 of that file
validateCursorHelpers(cursor) ==
    IF cursor = <<>> THEN ErrNone
    ELSE IF Len(cursor) > MaxCursorLength THEN ErrCursorTooLong
    ELSE LET dec == decodeCursor(cursor)
             decoded == dec.bytes
         IN  IF ~dec.ok THEN ErrMalformedBase64
             ELSE IF \E i \in 1..Len(decoded) : decoded[i] = 0 THEN ErrNullBytes
             ELSE IF Len(decoded) > MaxDecodedCursorLength THEN ErrDecodedTooLong
             ELSE IF Len(decoded) > 0 /\ ~isValidUTF8Helpers(decoded) THEN ErrNotUTF8
             ELSE ErrNone

\* variant: only the encoded length is checked
validateCursorModeParamsLengthOnly(cursor) ==
    IF cursor # <<>> /\ Len(cursor) > MaxCursorLength THEN ErrCursorTooLong ELSE ErrNone

validateCursorModeParams(cursor) == validateCursor(cursor)

-----------------------------------------------------------------------------
(* strconv.ParseInt(s, 10, 64): [ok, val].  val is exact up to IntCap and   *)
(* saturates there with its sign; the range check against the 64-bit      *)
(* limits compares digit strings, so it is exact for every length.         *)

\* the decimal digits of 2^63
Int64Limit == <<57, 50, 50, 51, 51, 55, 50, 48, 51, 54, 56, 53, 52, 55, 55, 53, 56, 48, 56>>

RECURSIVE StripZeros(_)
StripZeros(ds) ==
    IF Len(ds) > 1 /\ ds[1] = 48 THEN StripZeros(Tail(ds)) ELSE ds

\* a < b for digit strings of the same length
RECURSIVE DigitsLess(_, _)
DigitsLess(a, b) ==
    IF a = <<>> THEN FALSE
    ELSE IF a[1] # b[1] THEN a[1] < b[1]
    ELSE DigitsLess(Tail(a), Tail(b))

\* the magnitude of a digit string is below 2^63
BelowInt64Limit(ds) ==
    LET m == StripZeros(ds)
    IN  \/ Len(m) < Len(Int64Limit)
        \/ Len(m) = Len(Int64Limit) /\ DigitsLess(m, Int64Limit)

RECURSIVE Magnitude(_, _)
Magnitude(ds, acc) ==
    IF ds = <<>> THEN acc
    ELSE Magnitude(Tail(ds), Min(acc * 10 + (ds[1] - 48), IntCap))

ParseInt(s) ==
    LET signed == s # <<>> /\ (s[1] = 43 \/ s[1] = 45)
        neg == s # <<>> /\ s[1] = 45
        ds == IF signed THEN Tail(s) ELSE s
        syntaxOk == ds # <<>> /\ \A i \in 1..Len(ds) : IsDigit(ds[i])
        \* un < 2^63 for a positive value, un <= 2^63 for a negative one
        rangeOk == BelowInt64Limit(ds) \/ (neg /\ StripZeros(ds) = Int64Limit)
        mag == Magnitude(ds, 0)
    IN  IF syntaxOk /\ rangeOk
        THEN [ok |-> TRUE, val |-> IF neg THEN 0 - mag ELSE mag]
        ELSE [ok |-> FALSE, val |-> 0]

-----------------------------------------------------------------------------
(* handlers.parseCursorParams.  A request is the three query parameters;   *)
(* flag is what config.GetCursorPaginationEnabled() returns when the code  *)
(* reaches it.  The result is the returned tuple, err = "" meaning nil.    *)

ErrorResult(msg) ==
    [cursor |-> <<>>, limit |-> 0, useCursor |-> FALSE, err |-> msg]

\* the mode branch consults the feature flag (precedence 3)
ConsultsFlag(r) ==
    r.mode = "" /\ r.cursor = <<>>

\* variant: the presence of a cursor is tested before the explicit mode
resolveModeCursorFirst(mode, cursor, enabled) ==
    IF mode \notin {"", "cursor", "legacy"} THEN [err |-> ErrInvalidMode, useCursor |-> FALSE]
    ELSE IF cursor # <<>> THEN [err |-> ErrNone, useCursor |-> TRUE]
    ELSE IF mode = "cursor" THEN [err |-> ErrNone, useCursor |-> TRUE]
    ELSE IF mode = "legacy" THEN [err |-> ErrNone, useCursor |-> FALSE]
    ELSE [err |-> ErrNone, useCursor |-> enabled]

\* variant: cursor mode is only granted while the flag is enabled
resolveModeFlagGated(mode, cursor, enabled) ==
    IF mode = "cursor" THEN [err |-> ErrNone, useCursor |-> enabled]
    ELSE IF mode = "legacy" THEN [err |-> ErrNone, useCursor |-> FALSE]
    ELSE IF mode # "" THEN [err |-> ErrInvalidMode, useCursor |-> FALSE]
    ELSE IF cursor # <<>> THEN [err |-> ErrNone, useCursor |-> enabled]
    ELSE [err |-> ErrNone, useCursor |-> enabled]

\* variant: the last branch does not read the flag and stays in legacy mode
resolveModeNoFlag(mode, cursor, enabled) ==
    IF mode = "cursor" THEN [err |-> ErrNone, useCursor |-> TRUE]
    ELSE IF mode = "legacy" THEN [err |-> ErrNone, useCursor |-> FALSE]
    ELSE IF mode # "" THEN [err |-> ErrInvalidMode, useCursor |-> FALSE]
    ELSE IF cursor # <<>> THEN [err |-> ErrNone, useCursor |-> TRUE]
    ELSE [err |-> ErrNone, useCursor |-> FALSE]

\* variant: an unknown mode is ignored instead of rejected
resolveModeLenient(mode, cursor, enabled) ==
    IF mode = "cursor" THEN [err |-> ErrNone, useCursor |-> TRUE]
    ELSE IF mode = "legacy" THEN [err |-> ErrNone, useCursor |-> FALSE]
    ELSE IF cursor # <<>> THEN [err |-> ErrNone, useCursor |-> TRUE]
    ELSE [err |-> ErrNone, useCursor |-> enabled]

\* variant: only a cursor that validates switches to cursor mode
resolveModeByValidity(mode, cursor, enabled) ==
    IF mode = "cursor" THEN [err |-> ErrNone, useCursor |-> TRUE]
    ELSE IF mode = "legacy" THEN [err |-> ErrNone, useCursor |-> FALSE]
    ELSE IF mode # "" THEN [err |-> ErrInvalidMode, useCursor |-> FALSE]
    ELSE IF cursor # <<>> /\ validateCursor(cursor) = ErrNone
         THEN [err |-> ErrNone, useCursor |-> TRUE]
    ELSE [err |-> ErrNone, useCursor |-> enabled]

\* the if/else-if chain that determines the pagination mode:
\* [err, useCursor], enabled being the flag the last branch reads
resolveMode(mode, cursor, enabled) ==
    IF mode = "cursor" THEN [err |-> ErrNone, useCursor |-> TRUE]
    ELSE IF mode = "legacy" THEN [err |-> ErrNone, useCursor |-> FALSE]
    ELSE IF mode # "" THEN [err |-> ErrInvalidMode, useCursor |-> FALSE]
    ELSE IF cursor # <<>> THEN [err |-> ErrNone, useCursor |-> TRUE]
    ELSE [err |-> ErrNone, useCursor |-> enabled]

\* variant: the positivity test is off by one
resolveLimitRejectsOne(limitStr) ==
    IF limitStr = <<>> THEN [err |-> ErrNone, limit |-> DefaultLimit]
    ELSE LET parsed == ParseInt(limitStr)
         IN  IF ~parsed.ok THEN [err |-> ErrLimitFormat, limit |-> 0]
             ELSE IF parsed.val <= 1 THEN [err |-> ErrLimitNotPositive, limit |-> 0]
             ELSE IF parsed.val > MaxLimit THEN [err |-> ErrNone, limit |-> MaxLimit]
             ELSE [err |-> ErrNone, limit |-> parsed.val]

\* variant: a limit above the maximum is rejected instead of clamped
resolveLimitRejectsLarge(limitStr) ==
    IF limitStr = <<>> THEN [err |-> ErrNone, limit |-> DefaultLimit]
    ELSE LET parsed == ParseInt(limitStr)
         IN  IF ~parsed.ok THEN [err |-> ErrLimitFormat, limit |-> 0]
             ELSE IF parsed.val <= 0 THEN [err |-> ErrLimitNotPositive, limit |-> 0]
             ELSE IF parsed.val > MaxLimit THEN [err |-> ErrLimitFormat, limit |-> 0]
             ELSE [err |-> ErrNone, limit |-> parsed.val]

\* variant: zero passes the positivity test
resolveLimitZeroOk(limitStr) ==
    IF limitStr = <<>> THEN [err |-> ErrNone, limit |-> DefaultLimit]
    ELSE LET parsed == ParseInt(limitStr)
         IN  IF ~parsed.ok THEN [err |-> ErrLimitFormat, limit |-> 0]
             ELSE IF parsed.val < 0 THEN [err |-> ErrLimitNotPositive, limit |-> 0]
             ELSE IF parsed.val > MaxLimit THEN [err |-> ErrNone, limit |-> MaxLimit]
             ELSE [err |-> ErrNone, limit |-> parsed.val]

\* the limit block: [err, limit]
resolveLimit(limitStr) ==
    IF limitStr = <<>> THEN [err |-> ErrNone, limit |-> DefaultLimit]
    ELSE LET parsed == ParseInt(limitStr)
         IN  IF ~parsed.ok THEN [err |-> ErrLimitFormat, limit |-> 0]
             ELSE IF parsed.val <= 0 THEN [err |-> ErrLimitNotPositive, limit |-> 0]
             ELSE IF parsed.val > MaxLimit THEN [err |-> ErrNone, limit |-> MaxLimit]
             ELSE [err |-> ErrNone, limit |-> parsed.val]

parseCursorParams(r, enabled) ==
    LET m == resolveMode(r.mode, r.cursor, enabled)
        cursorErr == IF m.useCursor THEN validateCursorModeParams(r.cursor) ELSE ErrNone
        l == resolveLimit(r.limit)
    IN  IF m.err # ErrNone THEN ErrorResult(m.err)
        ELSE IF cursorErr # ErrNone THEN ErrorResult(cursorErr)
        ELSE IF l.err # ErrNone THEN ErrorResult(l.err)
        ELSE [cursor |-> r.cursor, limit |-> l.limit,
              useCursor |-> m.useCursor, err |-> ErrNone]

-----------------------------------------------------------------------------
(* config: the feature-flag store (single caller at a time; the mutex is   *)
(* uncontended, so each call runs from RLock to its return in one step)    *)

Config(enabled) == [Features |-> [CursorPaginationEnabled |-> enabled]]

\* os.LookupEnv results: the variable is unset, or set to some value
EnvUnset == [set |-> FALSE, value |-> ""]
EnvSet(v) == [set |-> TRUE, value |-> v]
Envs == {EnvUnset, EnvSet("true"), EnvSet("false"), EnvSet("1"), EnvSet("")}

\* config/flags.json: absent; not valid JSON (or not readable); a document
\* setting the flag; or a document that is valid JSON, sets the flag to true
\* and then gives a value of the wrong type for a known key, such as
\* {"features":{"cursor_pagination_enabled":true},"features":0}
Files == {"missing", "malformed", "enabled", "disabled", "conflicting"}

\* loadFromFile: the error (if any) and the config after json.Unmarshal.
\* Unmarshal checks the syntax before it stores anything, so a syntax error
\* leaves the config alone; on a value of the wrong type it skips that value,
\* keeps what it has decoded and returns an UnmarshalTypeError at the end.
loadFromFile(f, config) ==
    IF f = "missing" THEN [err |-> "ErrNotExist", config |-> config]
    ELSE IF f = "malformed" THEN [err |-> "SyntaxError", config |-> config]
    ELSE IF f = "conflicting" THEN [err |-> "UnmarshalTypeError", config |-> Config(TRUE)]
    ELSE [err |-> ErrNone, config |-> Config(f = "enabled")]

\* variant: the cache is never considered fresh
IsFreshNever(gc, llt, t) == FALSE

\* the freshness test made under the read lock and again under the write lock
IsFresh(gc, llt, t) == gc # Nil /\ t - llt < cacheTTL

\* variant: the environment is applied first and the file on top of it
LoadFeatureFlagsEnvFirst(gc, llt, t, e, f) ==
    IF IsFresh(gc, llt, t)
    THEN [config |-> gc, err |-> ErrNone, globalConfig |-> gc, lastLoadTime |-> llt]
    ELSE LET default == Config(FALSE)
             fromEnv == IF e.set THEN Config(e.value = "true") ELSE default
             loaded == loadFromFile(f, fromEnv)
             config == loaded.config
         IN  IF loaded.err # ErrNone /\ loaded.err # "ErrNotExist"
             THEN [config |-> config, err |-> "load feature flags from file",
                   globalConfig |-> gc, lastLoadTime |-> llt]
             ELSE [config |-> config, err |-> ErrNone,
                   globalConfig |-> config, lastLoadTime |-> t]

\* variant: a failed reload publishes what it built, with the current time
LoadFeatureFlagsCachesFailure(gc, llt, t, e, f) ==
    IF IsFresh(gc, llt, t)
    THEN [config |-> gc, err |-> ErrNone, globalConfig |-> gc, lastLoadTime |-> llt]
    ELSE LET default == Config(FALSE)
             loaded == loadFromFile(f, default)
             fromFile == loaded.config
             config == IF e.set THEN Config(e.value = "true") ELSE fromFile
         IN  IF loaded.err # ErrNone /\ loaded.err # "ErrNotExist"
             THEN [config |-> fromFile, err |-> "load feature flags from file",
                   globalConfig |-> fromFile, lastLoadTime |-> t]
             ELSE [config |-> config, err |-> ErrNone,
                   globalConfig |-> config, lastLoadTime |-> t]

\* LoadFeatureFlags at time t: the returned (config, err) and the cache it leaves
LoadFeatureFlags(gc, llt, t, e, f) ==
    IF IsFresh(gc, llt, t)
    THEN [config |-> gc, err |-> ErrNone, globalConfig |-> gc, lastLoadTime |-> llt]
    ELSE LET default == Config(FALSE)
             loaded == loadFromFile(f, default)
             fromFile == loaded.config
             config == IF e.set THEN Config(e.value = "true") ELSE fromFile
         IN  IF loaded.err # ErrNone /\ loaded.err # "ErrNotExist"
             THEN [config |-> fromFile, err |-> "load feature flags from file",
                   globalConfig |-> gc, lastLoadTime |-> llt]
             ELSE [config |-> config, err |-> ErrNone,
                   globalConfig |-> config, lastLoadTime |-> t]

\* GetCursorPaginationEnabled: the boolean returned, given LoadFeatureFlags' result
GetCursorPaginationEnabled(loaded) ==
    IF loaded.err # ErrNone THEN FALSE
    ELSE loaded.config.Features.CursorPaginationEnabled

\* the call made on the current state
LoadNow == LoadFeatureFlags(globalConfig, lastLoadTime, now, env, file)

-----------------------------------------------------------------------------
(* config: the store as its goroutines see it.  A *Config is a pointer     *)
(* [addr |-> a] into the heap; the mutex is what the statements of          *)
(* LoadFeatureFlags and InvalidateCache synchronise on.                    *)

Goroutines == {"g1", "g2"}

\* one instance can be cached and every goroutine can hold one more
Addresses == 1..(Cardinality(Goroutines) + 1)

Ptr(a) == [addr |-> a]

\* the goroutines that have called configMutex.Lock() and wait for it
LockWaiters == {g \in Goroutines : pc[g] \in {"lockwait48", "lockwait108"}}

\* variant: RLock does not wait for a writer
CanRLockUnguarded(m, waiters) == TRUE

\* RLock returns when no writer holds the mutex and none is waiting for it
CanRLock(m, waiters) == m.writers = {} /\ waiters = {}

\* variant: Lock does not wait for the readers and the writer
CanLockUnguarded(m) == TRUE

\* Lock returns when nobody holds the mutex
CanLock(m) == m.writers = {} /\ m.readers = {}

\* variant: the return on a load error skips the deferred Unlock
afterLoadErrorNoUnlock == "return98"

\* the return on a load error runs the deferred Unlock first
afterLoadError == "unlock49"

\* the addresses something points to
Referenced(gc, p) ==
    {a \in Addresses : gc = Ptr(a) \/ \E g \in Goroutines : p[g] = Ptr(a)}

\* the garbage collector: an instance nothing points to is gone
Collect(h, refs) == [a \in Addresses |-> IF a \in refs THEN h[a] ELSE Nil]

\* nothing happened to the cache while the goroutine waited
NotOvertaken == [what |-> "nothing", at |-> 0]
\* while it waited, another goroutine ran loadFromFile at time t, or emptied
\* the cache
Overtaken(what, t) == [what |-> what, at |-> t]

\* the goroutines other than h that have missed and do not hold the lock yet
Waiting(h) == {g \in Goroutines \ {h} : pc[g] \in {"runlock45", "lock48", "lockwait48"}}

\* no goroutine is inside the store and nothing is allocated
NoGoroutines ==
    /\ pc = [g \in Goroutines |-> "idle"]
    /\ configMutex = [writers |-> {}, readers |-> {}]
    /\ heap = [a \in Addresses |-> Nil]
    /\ ptr = [g \in Goroutines |-> Nil]
    /\ err = [g \in Goroutines |-> ErrNone]
    /\ built = {}
    /\ old = {}
    /\ forbidden = [g \in Goroutines |-> {}]
    /\ overtaken = [g \in Goroutines |-> NotOvertaken]

-----------------------------------------------------------------------------
(* services: the errors of the upstream API and their classification.      *)
(* An error text is a sequence of characters, since the classifier         *)
(* searches it for substrings.                                             *)

upperLetters ==
    <<"A", "B", "C", "D", "E", "F", "G", "H", "I", "J", "K", "L", "M",
      "N", "O", "P", "Q", "R", "S", "T", "U", "V", "W", "X", "Y", "Z">>
lowerLetters ==
    <<"a", "b", "c", "d", "e", "f", "g", "h", "i", "j", "k", "l", "m",
      "n", "o", "p", "q", "r", "s", "t", "u", "v", "w", "x", "y", "z">>

\* unicode.ToLower of one character
toLowerChar(c) ==
    IF \E i \in 1..26 : upperLetters[i] = c
    THEN lowerLetters[CHOOSE i \in 1..26 : upperLetters[i] = c]
    ELSE c

\* strings.ToLower
ToLower(s) == [i \in 1..Len(s) |-> toLowerChar(s[i])]

\* strings.Contains
Contains(s, substr) ==
    \E i \in 0..(Len(s) - Len(substr)) : SubSeq(s, i + 1, i + Len(substr)) = substr

\* "continue token"
strContinueToken ==
    <<"c", "o", "n", "t", "i", "n", "u", "e", " ", "t", "o", "k", "e", "n">>

\* "expired"
strExpired ==
    <<"e", "x", "p", "i", "r", "e", "d">>

\* "invalid cursor"
strInvalidCursor ==
    <<"i", "n", "v", "a", "l", "i", "d", " ", "c", "u", "r", "s", "o", "r">>

\* "invalid token"
strInvalidToken ==
    <<"i", "n", "v", "a", "l", "i", "d", " ", "t", "o", "k", "e", "n">>

\* ""wrap: ", the text fmt.Errorf("wrap: %w", err) puts in front"
strWrap ==
    <<"w", "r", "a", "p", ":", " ">>

\* a nil error
NoError == [isNil |-> TRUE]
\* an error that is no apierrors.APIStatus and wraps none
NoStatus == [none |-> TRUE]
\* the metav1.Status of an apierrors.StatusError
Status(reason, code) == [reason |-> reason, code |-> code]

\* an error: the status it carries (its own, or that of the error it wraps
\* with %w), whether it is such a wrapper, and the message of the innermost
\* error
Error(status, wrapped, message) ==
    [status |-> status, wrapped |-> wrapped, message |-> message]

\* err.Error()
ErrorText(e) == IF e.wrapped THEN strWrap \o e.message ELSE e.message

\* metav1.StatusReasonUnknown
StatusReasonUnknown == ""

\* apierrors.knownReasons
knownReasons ==
    {"Unauthorized", "Forbidden", "NotFound", "AlreadyExists", "Conflict", "Gone",
     "Invalid", "ServerTimeout", "Timeout", "TooManyRequests", "BadRequest",
     "MethodNotAllowed", "NotAcceptable", "RequestEntityTooLarge",
     "UnsupportedMediaType", "InternalError", "Expired", "ServiceUnavailable"}

\* apierrors.reasonAndCodeForError: errors.As finds the status through %w
reasonAndCodeForError(e) ==
    IF e.status = NoStatus THEN Status(StatusReasonUnknown, 0) ELSE e.status

\* apierrors.IsGone: the reason Gone, or the code 410 under a reason the
\* package does not know; the reason Expired is known and is not Gone
IsGone(e) ==
    LET s == reasonAndCodeForError(e)
    IN  s.reason = "Gone" \/ (s.reason \notin knownReasons /\ s.code = 410)

\* apierrors.IsBadRequest
IsBadRequest(e) ==
    LET s == reasonAndCodeForError(e)
    IN  s.reason = "BadRequest" \/ (s.reason \notin knownReasons /\ s.code = 400)

\* apierrors.IsServiceUnavailable
IsServiceUnavailable(e) ==
    LET s == reasonAndCodeForError(e)
    IN  s.reason = "ServiceUnavailable" \/ (s.reason \notin knownReasons /\ s.code = 503)

\* services.isExpiredTokenError
isExpiredTokenError(e) ==
    IF e = NoError THEN FALSE
    ELSE IF IsGone(e) THEN TRUE
    ELSE LET errMsg == ToLower(ErrorText(e))
         IN  Contains(errMsg, strContinueToken) /\ Contains(errMsg, strExpired)

\* services.isInvalidCursorError, which only its test shows: a 400 of the
\* upstream API, or a message that names an invalid cursor or token
isInvalidCursorError(e) ==
    IF e = NoError THEN FALSE
    ELSE IF IsBadRequest(e) THEN TRUE
    ELSE LET errMsg == ToLower(ErrorText(e))
         IN  Contains(errMsg, strInvalidCursor) \/ Contains(errMsg, strInvalidToken)

\* services.isServiceUnavailableError, which only its test shows: a 503 of
\* the upstream API
isServiceUnavailableError(e) ==
    IF e = NoError THEN FALSE ELSE IsServiceUnavailable(e)

\* the ErrorKind of an error: the first rule that matches decides
classify(e) ==
    IF isExpiredTokenError(e) THEN "TokenExpired"
    ELSE IF isInvalidCursorError(e) THEN "InvalidCursor"
    ELSE IF isServiceUnavailableError(e) THEN "Unavailable"
    ELSE "Other"

\* the classifier has not run yet
NoKind == "not classified"
\* nothing has been written to the response yet
NoResponse == [none |-> TRUE]

\* handlers.writeTokenExpiredError: the header, the status and the encoded
\* models.ErrorResponseWithMetadata(message, code, metadata)
writeTokenExpiredError ==
    [contentType |-> "application/json",
     status |-> 410,
     message |-> "Continue token has expired",
     code |-> "CONTINUE_TOKEN_EXPIRED",
     metadata |-> [retryable |-> TRUE, code |-> "CONTINUE_TOKEN_EXPIRED"]]

\* no query has failed and nothing has been classified or written
NoUpstream ==
    /\ upstream = NoError
    /\ kind = NoKind
    /\ response = NoResponse

-----------------------------------------------------------------------------
(* Requests                                                                *)

NoRequest == [none |-> TRUE]
NoResult == [none |-> TRUE]
\* validateCursor has not returned yet
NoVerdict == "not validated"
\* the store has not been called directly yet
NoReturn == [none |-> TRUE]

Request(m, c, l) == [mode |-> m, cursor |-> c, limit |-> l]

\* absent, the two accepted values, and two values the code does not accept
Modes == {"", "cursor", "legacy", "invalid", "Cursor"}

\* "SGVsbG8=": standard base64 of "Hello"
tokHello == <<83, 71, 86, 115, 98, 71, 56, 61>>
\* "QUI_": URL-safe base64 of "AB?", not decodable with the standard alphabet
tokUrlSafe == <<81, 85, 73, 95>>
\* "QQBC": base64 of "A\x00B"
tokNullByte == <<81, 81, 66, 67>>
\* "/w==": base64 of the single byte 0xFF
tokNotUTF8 == <<47, 119, 61, 61>>
\* "AAAAAAA": alphabet characters only, but not whole quanta
tokMalformed == <<65, 65, 65, 65, 65, 65, 65>>
\* one character more than the encoded maximum
tokTooLong == Repeat(<<65>>, MaxCursorLength + 1)

Cursors == {<<>>, tokHello, tokUrlSafe, tokNullByte, tokNotUTF8, tokMalformed, tokTooLong}

\* strconv.FormatInt(n, 10): how a client spells the integer n
RECURSIVE FormatNat(_)
FormatNat(n) == IF n < 10 THEN <<48 + n>> ELSE Append(FormatNat(n \div 10), 48 + (n % 10))
FormatInt(n) == IF n < 0 THEN <<45>> \o FormatNat(0 - n) ELSE FormatNat(n)

\* every spelling of n that ParseInt is documented to accept
Spellings(n) ==
    {FormatInt(n)} \cup (IF n >= 0 THEN {<<43>> \o FormatNat(n), <<48>> \o FormatNat(n)}
                         ELSE {<<45, 48>> \o FormatNat(0 - n)})

\* "50" and "0"
limFifty == <<53, 48>>
limZero == <<48>>
\* "abc", " 5", "5x", "-" and "1.5": not decimal integers
limWord == <<97, 98, 99>>
limLeadingSpace == <<32, 53>>
limTrailingLetter == <<53, 120>>
limSignOnly == <<45>>
limFraction == <<49, 46, 53>>
\* "2000"
limTwoThousand == <<50, 48, 48, 48>>
\* "9223372036854775807" = 2^63 - 1, the largest int64
limMaxInt64 == <<57, 50, 50, 51, 51, 55, 50, 48, 51, 54, 56, 53, 52, 55, 55, 53, 56, 48, 55>>
\* "9223372036854775808" = 2^63 and "99999999999999999999"
limPastInt64 == Int64Limit
limTwentyNines == Repeat(<<57>>, 20)
\* "-9223372036854775808" = -2^63 and "-9223372036854775809"
limMinInt64 == <<45>> \o Int64Limit
limBelowInt64 == <<45, 57, 50, 50, 51, 51, 55, 50, 48, 51, 54, 56, 53, 52, 55, 55, 53, 56, 48, 57>>

\* the integers whose spellings are enumerated as limits
LimitInts == ((0 - SmallInts)..SmallInts)
             \cup ((MaxLimit - NearMax)..(MaxLimit + NearMax))
             \cup {DefaultLimit, 50}

NonNumericLimits == {limWord, limLeadingSpace, limTrailingLetter, limSignOnly, limFraction}

\* decimal strings of integers above MaxLimit, inside and outside int64
LargeLimits == {limTwoThousand, limMaxInt64, limPastInt64, limTwentyNines}

\* decimal strings of integers far below zero, inside and outside int64
VeryNegativeLimits == {limMinInt64, limBelowInt64}

Limits == {<<>>} \cup UNION {Spellings(n) : n \in LimitInts}
          \cup NonNumericLimits \cup LargeLimits \cup VeryNegativeLimits

\* the requests of the specification Spec (the store is the subject there)
Requests == {Request(m, c, l) : m \in {"", "cursor", "legacy", "invalid"},
                                c \in {<<>>, tokHello, tokUrlSafe, tokMalformed},
                                l \in {<<>>, limZero}}

\* the requests of the specification SpecResolve: every cursor with a few
\* limits, and every limit with a few cursors
AllRequests ==
    {Request(m, c, l) : m \in Modes, c \in Cursors, l \in {<<>>, limFifty, limZero, limWord}}
    \cup {Request(m, c, l) : m \in Modes, c \in {<<>>, tokHello, tokMalformed}, l \in Limits}

-----------------------------------------------------------------------------
(* Actions                                                                 *)

\* one run of the handler's parseCursorParams on request r
ParseCursorParams(r) ==
    LET loaded == LoadNow
        enabled == GetCursorPaginationEnabled(loaded)
    IN  /\ req' = r
        /\ res' = parseCursorParams(r, enabled)
        /\ flagAtCall' = enabled
        /\ repeated' = (res # NoResult /\ r = req /\ enabled = flagAtCall)
        /\ IF ConsultsFlag(r)
           THEN /\ globalConfig' = loaded.globalConfig
                /\ lastLoadTime' = loaded.lastLoadTime
           ELSE UNCHANGED <<globalConfig, lastLoadTime>>
        /\ UNCHANGED <<now, env, file>>
        /\ UNCHANGED <<validatorVars, callVars, goroutineVars, classifierVars>>

HandleRequest == \E r \in Requests : ParseCursorParams(r)

\* another handler of the process asks the store for the flag
OtherCallerLoads ==
    /\ globalConfig' = LoadNow.globalConfig
    /\ lastLoadTime' = LoadNow.lastLoadTime
    /\ UNCHANGED <<now, env, file, req, res, flagAtCall, repeated>>
    /\ UNCHANGED <<validatorVars, callVars, goroutineVars, classifierVars>>

InvalidateCache ==
    /\ globalConfig' = Nil
    /\ lastLoadTime' = ZeroTime
    /\ UNCHANGED <<now, env, file, req, res, flagAtCall, repeated>>
    /\ UNCHANGED <<validatorVars, callVars, goroutineVars, classifierVars>>

\* the operator sets or unsets CURSOR_PAGINATION_ENABLED
Setenv ==
    /\ \E e \in Envs : e # env /\ env' = e
    /\ UNCHANGED <<globalConfig, lastLoadTime, now, file, req, res, flagAtCall, repeated>>
    /\ UNCHANGED <<validatorVars, callVars, goroutineVars, classifierVars>>

\* the operator writes, breaks or removes config/flags.json
WriteConfigFile ==
    /\ \E f \in Files : f # file /\ file' = f
    /\ UNCHANGED <<globalConfig, lastLoadTime, now, env, req, res, flagAtCall, repeated>>
    /\ UNCHANGED <<validatorVars, callVars, goroutineVars, classifierVars>>

\* a minute passes
Tick ==
    /\ now < MaxTime
    /\ now' = now + 1
    /\ UNCHANGED <<globalConfig, lastLoadTime, env, file, req, res, flagAtCall, repeated>>
    /\ UNCHANGED <<validatorVars, callVars, goroutineVars, classifierVars>>

Init ==
    /\ globalConfig = Nil
    /\ lastLoadTime = ZeroTime
    /\ now = 0
    /\ env = EnvUnset
    /\ file = "missing"
    /\ req = NoRequest
    /\ res = NoResult
    /\ flagAtCall = FALSE
    /\ repeated = FALSE
    /\ token = <<>>
    /\ verdict = NoVerdict
    /\ returned = NoReturn
    /\ NoGoroutines
    /\ NoUpstream

Next ==
    \/ HandleRequest
    \/ OtherCallerLoads
    \/ InvalidateCache
    \/ Setenv
    \/ WriteConfigFile
    \/ Tick

Spec == Init /\ [][Next]_vars

-----------------------------------------------------------------------------
(* SpecResolve: parseCursorParams as a function of the request and of the  *)
(* flag.  The process has just started (nothing cached); the request, the  *)
(* environment variable and the file are the inputs.                       *)

InitResolve ==
    /\ globalConfig = Nil
    /\ lastLoadTime = ZeroTime
    /\ now = 0
    /\ env \in Envs
    /\ file \in Files
    /\ req \in AllRequests
    /\ res = NoResult
    /\ flagAtCall = FALSE
    /\ repeated = FALSE
    /\ token = <<>>
    /\ verdict = NoVerdict
    /\ returned = NoReturn
    /\ NoGoroutines
    /\ NoUpstream

\* the handler runs on the request that arrived
HandleArrived == res = NoResult /\ ParseCursorParams(req)

NextResolve == HandleArrived

SpecResolve == InitResolve /\ [][NextResolve]_vars

-----------------------------------------------------------------------------
(* SpecStore: the feature-flag store called directly, one caller at a      *)
(* time, while the operator changes the environment and the file and the   *)
(* clock advances.  The call records what it returned.                     *)

\* config.GetCursorPaginationEnabled(), which calls LoadFeatureFlags()
CallGetCursorPaginationEnabled ==
    LET loaded == LoadNow
    IN  /\ returned' = [config |-> loaded.config,
                        err |-> loaded.err,
                        enabled |-> GetCursorPaginationEnabled(loaded),
                        hit |-> IsFresh(globalConfig, lastLoadTime, now),
                        env |-> env,
                        file |-> file]
        /\ globalConfig' = loaded.globalConfig
        /\ lastLoadTime' = loaded.lastLoadTime
        /\ UNCHANGED <<now, env, file, req, res, flagAtCall, repeated>>
        /\ UNCHANGED <<validatorVars, goroutineVars, classifierVars>>

NextStore ==
    \/ CallGetCursorPaginationEnabled
    \/ InvalidateCache
    \/ Setenv
    \/ WriteConfigFile
    \/ Tick

SpecStore == Init /\ [][NextStore]_vars

-----------------------------------------------------------------------------
(* SpecConcurrent: the goroutines of the process call                      *)
(* GetCursorPaginationEnabled and InvalidateCache concurrently, one        *)
(* statement at a time, while the file changes and the clock advances.     *)
(* The label of a statement ends in its line number in the source.         *)

\* what a statement of the store leaves alone
outsideGoroutines ==
    <<now, env, file, req, res, flagAtCall, repeated, token, verdict, returned,
      classifierVars>>

\* what a statement leaves alone that does not bear on the waiting goroutines
outsideStore == <<outsideGoroutines, overtaken>>

\* variant: the reload rebuilds the cached instance in place when there is one
newConfigInPlace(gc, p) ==
    IF gc # Nil THEN gc.addr
    ELSE CHOOSE a \in Addresses :
            /\ a \notin Referenced(gc, p)
            /\ \A b \in 1..(a - 1) : b \in Referenced(gc, p)

\* &Config{...}: the address of a new instance (the lowest free one)
newConfig(gc, p) ==
    CHOOSE a \in Addresses :
        /\ a \notin Referenced(gc, p)
        /\ \A b \in 1..(a - 1) : b \in Referenced(gc, p)

\* the heap and the histories once the statement has run: gc, p, h, b, o, f
\* are the new globalConfig, ptr, heap, built, old, forbidden before collection
Settle(gc, p, h, b, o, f) ==
    LET refs == Referenced(gc, p)
    IN  /\ heap' = Collect(h, refs)
        /\ built' = b \cap refs
        /\ old' = o \cap refs
        /\ forbidden' = [g \in Goroutines |-> f[g] \cap refs]

\* a handler calls GetCursorPaginationEnabled, which calls LoadFeatureFlags
GoCall(g) ==
    /\ pc[g] = "idle"
    /\ pc' = [pc EXCEPT ![g] = "rlock38"]
    /\ err' = [err EXCEPT ![g] = ErrNone]
    /\ forbidden' = [forbidden EXCEPT ![g] = old]
    /\ UNCHANGED <<globalConfig, lastLoadTime, configMutex, heap, ptr, built, old, outsideStore>>

\* configMutex.RLock()
RLock(g) ==
    /\ pc[g] = "rlock38"
    /\ CanRLock(configMutex, LockWaiters)
    /\ configMutex' = [configMutex EXCEPT !.readers = @ \cup {g}]
    /\ pc' = [pc EXCEPT ![g] = "check41"]
    /\ UNCHANGED <<globalConfig, lastLoadTime, heap, ptr, err, built, old, forbidden, outsideStore>>

\* the freshness test under the read lock; on a hit the return value is taken
CheckFresh(g) ==
    /\ pc[g] = "check41"
    /\ IF IsFresh(globalConfig, lastLoadTime, now)
       THEN /\ ptr' = [ptr EXCEPT ![g] = globalConfig]
            /\ pc' = [pc EXCEPT ![g] = "runlock42"]
       ELSE /\ pc' = [pc EXCEPT ![g] = "runlock45"]
            /\ UNCHANGED ptr
    /\ UNCHANGED <<globalConfig, lastLoadTime, configMutex, heap, err, built, old, forbidden, outsideStore>>

\* the deferred configMutex.RUnlock() of the hit, and the return
RUnlockReturn(g) ==
    /\ pc[g] = "runlock42"
    /\ configMutex' = [configMutex EXCEPT !.readers = @ \ {g}]
    /\ pc' = [pc EXCEPT ![g] = "return98"]
    /\ UNCHANGED <<globalConfig, lastLoadTime, heap, ptr, err, built, old, forbidden, outsideStore>>

\* configMutex.RUnlock() of the miss
RUnlock(g) ==
    /\ pc[g] = "runlock45"
    /\ configMutex' = [configMutex EXCEPT !.readers = @ \ {g}]
    /\ pc' = [pc EXCEPT ![g] = "lock48"]
    /\ UNCHANGED <<globalConfig, lastLoadTime, heap, ptr, err, built, old, forbidden, outsideStore>>

\* configMutex.Lock() is called: from now on new readers wait
LockCall(g) ==
    /\ pc[g] = "lock48"
    /\ pc' = [pc EXCEPT ![g] = "lockwait48"]
    /\ UNCHANGED <<globalConfig, lastLoadTime, configMutex, heap, ptr, err, built, old, forbidden, outsideStore>>

\* configMutex.Lock() returns
LockAcquire(g) ==
    /\ pc[g] = "lockwait48"
    /\ CanLock(configMutex)
    /\ configMutex' = [configMutex EXCEPT !.writers = @ \cup {g}]
    /\ pc' = [pc EXCEPT ![g] = "recheck52"]
    /\ UNCHANGED <<globalConfig, lastLoadTime, heap, ptr, err, built, old, forbidden, outsideStore>>

\* variant: the freshness test is not repeated under the write lock
RecheckSkipped(g) ==
    /\ pc[g] = "recheck52"
    /\ pc' = [pc EXCEPT ![g] = "new56"]
    /\ UNCHANGED <<globalConfig, lastLoadTime, configMutex, heap, ptr, err, built, old,
                   forbidden, outsideStore>>

\* the freshness test repeated under the write lock
Recheck(g) ==
    /\ pc[g] = "recheck52"
    /\ IF IsFresh(globalConfig, lastLoadTime, now)
       THEN /\ ptr' = [ptr EXCEPT ![g] = globalConfig]
            /\ pc' = [pc EXCEPT ![g] = "unlock49"]
            /\ overtaken' = [overtaken EXCEPT ![g] = NotOvertaken]
       ELSE /\ pc' = [pc EXCEPT ![g] = "new56"]
            /\ UNCHANGED <<ptr, overtaken>>
    /\ UNCHANGED <<globalConfig, lastLoadTime, configMutex, heap, err, built, old, forbidden,
                   outsideGoroutines>>

\* config := &Config{...} with the flag disabled
NewConfig(g) ==
    LET a == newConfig(globalConfig, ptr)
    IN  /\ pc[g] = "new56"
        /\ ptr' = [ptr EXCEPT ![g] = Ptr(a)]
        /\ heap' = [heap EXCEPT ![a] = Config(FALSE)]
        /\ pc' = [pc EXCEPT ![g] = "load63"]
        /\ UNCHANGED <<globalConfig, lastLoadTime, configMutex, err, built, old, forbidden, outsideStore>>

\* loadFromFile("config/flags.json", config) and the test of its error
LoadFile(g) ==
    LET a == ptr[g].addr
        loaded == loadFromFile(file, heap[a])
        failed == loaded.err # ErrNone /\ loaded.err # "ErrNotExist"
    IN  /\ pc[g] = "load63"
        /\ heap' = [heap EXCEPT ![a] = loaded.config]
        /\ IF failed
           THEN /\ err' = [err EXCEPT ![g] = "load feature flags from file"]
                /\ built' = built \cup {a}
                /\ pc' = [pc EXCEPT ![g] = afterLoadError]
           ELSE /\ pc' = [pc EXCEPT ![g] = "env76"]
                /\ UNCHANGED <<err, built>>
        /\ overtaken' = [h \in Goroutines |->
                IF h = g THEN NotOvertaken
                ELSE IF h \in Waiting(g)
                     THEN Overtaken(IF failed THEN "failed" ELSE "reloaded", now)
                     ELSE overtaken[h]]
        /\ UNCHANGED <<globalConfig, lastLoadTime, configMutex, ptr, old, forbidden,
                       outsideGoroutines>>

\* os.LookupEnv("CURSOR_PAGINATION_ENABLED") and the override
LookupEnv(g) ==
    LET a == ptr[g].addr
    IN  /\ pc[g] = "env76"
        /\ heap' = IF env.set THEN [heap EXCEPT ![a] = Config(env.value = "true")] ELSE heap
        /\ pc' = [pc EXCEPT ![g] = "store80"]
        /\ UNCHANGED <<globalConfig, lastLoadTime, configMutex, ptr, err, built, old, forbidden, outsideStore>>

\* globalConfig = config
StoreConfig(g) ==
    /\ pc[g] = "store80"
    /\ globalConfig' = ptr[g]
    /\ Settle(ptr[g], ptr, heap, built \cup {ptr[g].addr}, old, forbidden)
    /\ pc' = [pc EXCEPT ![g] = "time81"]
    /\ UNCHANGED <<lastLoadTime, configMutex, ptr, err, outsideStore>>

\* lastLoadTime = time.Now()
StoreTime(g) ==
    /\ pc[g] = "time81"
    /\ lastLoadTime' = now
    /\ pc' = [pc EXCEPT ![g] = "unlock49"]
    /\ UNCHANGED <<globalConfig, configMutex, heap, ptr, err, built, old, forbidden, outsideStore>>

\* the deferred configMutex.Unlock(), and the return
UnlockReturn(g) ==
    /\ pc[g] = "unlock49"
    /\ configMutex' = [configMutex EXCEPT !.writers = @ \ {g}]
    /\ pc' = [pc EXCEPT ![g] = "return98"]
    /\ UNCHANGED <<globalConfig, lastLoadTime, heap, ptr, err, built, old, forbidden, outsideStore>>

\* GetCursorPaginationEnabled reads the flag of what LoadFeatureFlags
\* returned (or falls back to false) and returns to the handler
ReadFlag(g) ==
    LET p == [ptr EXCEPT ![g] = Nil]
    IN  /\ pc[g] = "return98"
        /\ ptr' = p
        /\ Settle(globalConfig, p, heap, built, old, [forbidden EXCEPT ![g] = {}])
        /\ pc' = [pc EXCEPT ![g] = "idle"]
        /\ UNCHANGED <<globalConfig, lastLoadTime, configMutex, err, outsideStore>>

\* InvalidateCache is called and calls configMutex.Lock()
InvLockCall(g) ==
    /\ pc[g] = "idle"
    /\ pc' = [pc EXCEPT ![g] = "lockwait108"]
    /\ UNCHANGED <<globalConfig, lastLoadTime, configMutex, heap, ptr, err, built, old, forbidden, outsideStore>>

\* configMutex.Lock() returns
InvLockAcquire(g) ==
    /\ pc[g] = "lockwait108"
    /\ CanLock(configMutex)
    /\ configMutex' = [configMutex EXCEPT !.writers = @ \cup {g}]
    /\ pc' = [pc EXCEPT ![g] = "clear111"]
    /\ UNCHANGED <<globalConfig, lastLoadTime, heap, ptr, err, built, old, forbidden, outsideStore>>

\* globalConfig = nil
InvClearConfig(g) ==
    /\ pc[g] = "clear111"
    /\ globalConfig' = Nil
    /\ Settle(Nil, ptr, heap, built, old, forbidden)
    /\ pc' = [pc EXCEPT ![g] = "zero112"]
    /\ overtaken' = [h \in Goroutines |->
            IF h \in Waiting(g) THEN Overtaken("emptied", 0) ELSE overtaken[h]]
    /\ UNCHANGED <<lastLoadTime, configMutex, ptr, err, outsideGoroutines>>

\* lastLoadTime = time.Time{}
InvZeroTime(g) ==
    /\ pc[g] = "zero112"
    /\ lastLoadTime' = ZeroTime
    /\ pc' = [pc EXCEPT ![g] = "unlock109"]
    /\ UNCHANGED <<globalConfig, configMutex, heap, ptr, err, built, old, forbidden, outsideStore>>

\* the deferred configMutex.Unlock(); InvalidateCache returns
InvUnlock(g) ==
    /\ pc[g] = "unlock109"
    /\ configMutex' = [configMutex EXCEPT !.writers = @ \ {g}]
    /\ old' = Referenced(globalConfig, ptr)
    /\ pc' = [pc EXCEPT ![g] = "idle"]
    /\ UNCHANGED <<globalConfig, lastLoadTime, heap, ptr, err, built, forbidden, outsideStore>>

\* a statement of a call that is under way
Proceed(g) ==
    \/ RLock(g) \/ CheckFresh(g) \/ RUnlockReturn(g) \/ RUnlock(g)
    \/ LockCall(g) \/ LockAcquire(g) \/ Recheck(g)
    \/ NewConfig(g) \/ LoadFile(g) \/ LookupEnv(g) \/ StoreConfig(g) \/ StoreTime(g)
    \/ UnlockReturn(g) \/ ReadFlag(g)
    \/ InvLockAcquire(g) \/ InvClearConfig(g) \/ InvZeroTime(g) \/ InvUnlock(g)

NextConcurrent ==
    \/ \E g \in Goroutines : GoCall(g)
    \/ \E g \in Goroutines : InvLockCall(g)
    \/ \E g \in Goroutines : Proceed(g)
    \/ WriteConfigFile
    \/ Tick

SpecConcurrent == Init /\ [][NextConcurrent]_vars

\* The scheduler runs every goroutine that can run, and sync.RWMutex starves
\* neither readers nor writers: a goroutine whose next statement is possible
\* again and again executes it.  Nothing obliges handlers to call the store,
\* the operator to write the file, or time to pass.
SpecConcurrentLive == SpecConcurrent /\ \A g \in Goroutines : SF_vars(Proceed(g))

-----------------------------------------------------------------------------
(* SpecValidate: validateCursor as a function of the cursor string.  The   *)
(* token is the input; the one action is the call.                         *)

\* 'A' (value 0), 'Q' (value 16), '/' (standard alphabet only), '_' (URL-safe
\* alphabet only), '=' (padding), '\n' (skipped by the decoder), '@' (in
\* neither alphabet)
TokenAlphabet == {65, 81, 47, 95, 61, 10, 64}

\* every string over TokenAlphabet up to this length is validated
MaxTokenLen == 4

ShortTokens == UNION {[1..k -> TokenAlphabet] : k \in 0..MaxTokenLen}

\* "SGVsbG8gV29ybGQ=" and "SGVsbG8tV29ybGQ_": "Hello World" and "Hello-World?"
tokHelloWorld == <<83, 71, 86, 115, 98, 71, 56, 103, 86, 50, 57, 121, 98, 71, 81, 61>>
tokHelloWorldUrl == <<83, 71, 86, 115, 98, 71, 56, 116, 86, 50, 57, 121, 98, 71, 81, 95>>
\* "invalid@cursor!" and "not-base64!!!"
tokInvalidChars == <<105, 110, 118, 97, 108, 105, 100, 64, 99, 117, 114, 115, 111, 114, 33>>
tokNotBase64 == <<110, 111, 116, 45, 98, 97, 115, 101, 54, 52, 33, 33, 33>>
\* "AEFC" and "QUIA": base64 of "\x00AB" and of "AB\x00"
tokNullFirst == <<65, 69, 70, 67>>
tokNullLast == <<81, 85, 73, 65>>
\* "QUJD" is base64 of "ABC"
quantumABC == <<81, 85, 74, 68>>
\* 512 characters: the longest cursor the length rule lets through
tokMaxValid == Repeat(quantumABC, MaxCursorLength \div 4)
tokMaxNewlines == Repeat(<<10>>, MaxCursorLength)
\* more than 512 characters, with content that every other rule accepts ...
tokLongValid == Repeat(quantumABC, MaxCursorLength \div 4 + 1)
tokLongNewlines == Repeat(<<10>>, MaxCursorLength + 1)
tokMaxValidNewline == tokMaxValid \o <<10>>
\* ... and with content that another rule would reject
tokLongNull == Repeat(tokNullByte, MaxCursorLength \div 4 + 1)
tokLongGarbage == Repeat(<<64>>, MaxCursorLength + 88)

\* "4oKs": the euro sign E2 82 AC; "4oI=": the same cut short; "gA==": a
\* continuation byte on its own
tokEuro == <<52, 111, 75, 115>>
tokTruncated == <<52, 111, 73, 61>>
tokStrayContinuation == <<103, 65, 61, 61>>
\* "wK8=" and "4ICv": '/' encoded in two bytes (C0 AF) and in three (E0 80 AF)
tokOverlong == <<119, 75, 56, 61>>
tokOverlongThree == <<52, 73, 67, 118>>
\* "7aCA": the surrogate U+D800 (ED A0 80)
tokSurrogate == <<55, 97, 67, 65>>
\* "9JCAgA==" and "9YCAgA==": U+110000 (F4 90 80 80) and the lead byte F5
tokAboveMax == <<57, 74, 67, 65, 103, 65, 61, 61>>
tokLeadF5 == <<57, 89, 67, 65, 103, 65, 61, 61>>

Utf8Tokens == {tokEuro, tokTruncated, tokStrayContinuation, tokOverlong,
               tokOverlongThree, tokSurrogate, tokAboveMax, tokLeadF5}

\* 688 characters that decode to 516 bytes of plain ASCII, more than
\* MaxDecodedCursorLength
tokHugeValid == Repeat(quantumABC, MaxDecodedCursorLength \div 3 + 2)

LongTokens == {tokHugeValid, tokTooLong, tokLongValid, tokLongNewlines, tokMaxValidNewline,
               tokLongNull, tokLongGarbage}

Tokens == ShortTokens \cup Cursors \cup LongTokens \cup Utf8Tokens
          \cup {tokHelloWorld, tokHelloWorldUrl, tokInvalidChars, tokNotBase64,
                tokNullFirst, tokNullLast, tokMaxValid, tokMaxNewlines}

InitValidate ==
    /\ globalConfig = Nil
    /\ lastLoadTime = ZeroTime
    /\ now = 0
    /\ env = EnvUnset
    /\ file = "missing"
    /\ req = NoRequest
    /\ res = NoResult
    /\ flagAtCall = FALSE
    /\ repeated = FALSE
    /\ token \in Tokens
    /\ verdict = NoVerdict
    /\ returned = NoReturn
    /\ NoGoroutines
    /\ NoUpstream

\* the call validateCursor(token)
ValidateCursor ==
    /\ verdict = NoVerdict
    /\ verdict' = validateCursor(token)
    /\ UNCHANGED <<globalConfig, lastLoadTime, now, env, file,
                   req, res, flagAtCall, repeated, token, returned>>
    /\ UNCHANGED <<goroutineVars, classifierVars>>

NextValidate == ValidateCursor

SpecValidate == InitValidate /\ [][NextValidate]_vars

\* the call validateCursor(token) of handlers/helpers.go
ValidateCursorHelpers ==
    /\ verdict = NoVerdict
    /\ verdict' = validateCursorHelpers(token)
    /\ UNCHANGED <<globalConfig, lastLoadTime, now, env, file,
                   req, res, flagAtCall, repeated, token, returned>>
    /\ UNCHANGED <<goroutineVars, classifierVars>>

NextValidateHelpers == ValidateCursorHelpers

SpecValidateHelpers == InitValidate /\ [][NextValidateHelpers]_vars

-----------------------------------------------------------------------------
(* SpecClassify: a query of the upstream API has failed (or not); the      *)
(* error is classified, and an expired token is answered with              *)
(* writeTokenExpiredError.                                                 *)

\* a message is made of at most this many fragments
MaxFragments == 3

\* "Continue Token"
strContinueTokenMixed ==
    <<"C", "o", "n", "t", "i", "n", "u", "e", " ", "T", "o", "k", "e", "n">>

\* " has "
strHas ==
    <<" ", "h", "a", "s", " ">>

\* "EXPIRED"
strExpiredUpper ==
    <<"E", "X", "P", "I", "R", "E", "D">>

\* "Invalid Token"
strInvalidTokenMixed ==
    <<"I", "n", "v", "a", "l", "i", "d", " ", "T", "o", "k", "e", "n">>

\* "resource gone"
strResourceGone ==
    <<"r", "e", "s", "o", "u", "r", "c", "e", " ", "g", "o", "n", "e">>

\* "token"
strToken ==
    <<"t", "o", "k", "e", "n">>

Fragments ==
    {strContinueToken, strContinueTokenMixed, strHas, strExpired, strExpiredUpper,
     strInvalidCursor, strInvalidTokenMixed, strResourceGone, strToken}

\* the messages of n fragments
RECURSIVE MessagesOf(_)
MessagesOf(n) ==
    IF n = 0 THEN {<<>>}
    ELSE {m \o f : m \in MessagesOf(n - 1), f \in Fragments}

Messages == UNION {MessagesOf(n) : n \in 0..MaxFragments}

\* apierrors.NewGone, NewResourceExpired, NewBadRequest, NewServiceUnavailable,
\* NewNotFound and NewInternalError, and the statuses of a server that sets a
\* code and no reason
Statuses ==
    {Status("Gone", 410), Status("Expired", 410), Status("BadRequest", 400),
     Status("ServiceUnavailable", 503), Status("NotFound", 404),
     Status("InternalError", 500),
     Status(StatusReasonUnknown, 410), Status(StatusReasonUnknown, 400),
     Status(StatusReasonUnknown, 503)}

UpstreamErrors ==
    {NoError} \cup {Error(s, w, m) : s \in Statuses \cup {NoStatus},
                                     w \in BOOLEAN, m \in Messages}

InitClassify ==
    /\ globalConfig = Nil
    /\ lastLoadTime = ZeroTime
    /\ now = 0
    /\ env = EnvUnset
    /\ file = "missing"
    /\ req = NoRequest
    /\ res = NoResult
    /\ flagAtCall = FALSE
    /\ repeated = FALSE
    /\ token = <<>>
    /\ verdict = NoVerdict
    /\ returned = NoReturn
    /\ NoGoroutines
    /\ upstream \in UpstreamErrors
    /\ kind = NoKind
    /\ response = NoResponse

\* the error of the query is classified
Classify ==
    /\ kind = NoKind
    /\ kind' = classify(upstream)
    /\ UNCHANGED <<globalConfig, lastLoadTime, now, env, file,
                   req, res, flagAtCall, repeated, upstream, response>>
    /\ UNCHANGED <<validatorVars, callVars, goroutineVars>>

\* the response layer answers an expired token: writeTokenExpiredError(w)
WriteTokenExpiredError ==
    /\ kind = "TokenExpired"
    /\ response = NoResponse
    /\ response' = writeTokenExpiredError
    /\ UNCHANGED <<globalConfig, lastLoadTime, now, env, file,
                   req, res, flagAtCall, repeated, upstream, kind>>
    /\ UNCHANGED <<validatorVars, callVars, goroutineVars>>

NextClassify == Classify \/ WriteTokenExpiredError

SpecClassify == InitClassify /\ [][NextClassify]_vars

-----------------------------------------------------------------------------
(* Vocabulary of the properties                                            *)

Handled == res # NoResult
Succeeded == Handled /\ res.err = ErrNone

\* cursors the validator accepts / rejects, with the rule that rejects them
GoodCursors == {<<>>, tokHello, tokUrlSafe}
BadCursors == {tokNullByte, tokNotUTF8, tokMalformed, tokTooLong}
RejectionOf(c) ==
    IF c = tokNullByte THEN ErrNullBytes
    ELSE IF c = tokNotUTF8 THEN ErrNotUTF8
    ELSE IF c = tokMalformed THEN ErrMalformedBase64
    ELSE ErrCursorTooLong

CursorErrors == {ErrCursorTooLong, ErrMalformedBase64, ErrNullBytes, ErrDecodedTooLong, ErrNotUTF8}
LimitErrors == {ErrLimitFormat, ErrLimitNotPositive}

\* spellings of the enumerated integers of a range
SpellingsIn(lo, hi) == UNION {Spellings(n) : n \in {k \in LimitInts : lo <= k /\ k <= hi}}

\* limits that are absent or denote a positive integer that fits an int64
AcceptableLimits == {<<>>} \cup SpellingsIn(1, MaxLimit + NearMax) \cup {limTwoThousand, limMaxInt64}

\* the request reaches the limit block: the mode is accepted and the cursor,
\* where it is validated, passes
ReachesLimit ==
    /\ req.mode \in {"", "cursor", "legacy"}
    /\ req.mode = "legacy" \/ req.cursor \in GoodCursors

-----------------------------------------------------------------------------
(* C1 - pagination=legacy together with a cursor parameter: whatever the    *)
(* flag and whatever the cursor holds (even a token the validator would    *)
(* reject), with an absent or valid limit the call succeeds in legacy mode *)
C1_LegacyBeatsCursor ==
    (Handled /\ req.mode = "legacy" /\ req.cursor # <<>> /\ req.limit \in AcceptableLimits)
        => (res.err = ErrNone /\ res.useCursor = FALSE)

C1_Witness ==
    /\ Handled /\ flagAtCall = TRUE
    /\ req.mode = "legacy" /\ req.cursor = tokMalformed /\ req.limit = limFifty
    /\ res.err = ErrNone /\ res.useCursor = FALSE /\ res.limit = 50

(* C2 - with the flag disabled a request is never downgraded: an explicit  *)
(* pagination=cursor, or a cursor without explicit mode, never ends in a   *)
(* legacy-mode success, and ends in a cursor-mode success when the cursor  *)
(* is empty or valid and the limit acceptable                              *)
C2_FlagNeverDowngrades ==
    (/\ Handled /\ flagAtCall = FALSE
     /\ req.mode = "cursor" \/ (req.mode = "" /\ req.cursor # <<>>))
        => /\ ~(res.err = ErrNone /\ res.useCursor = FALSE)
           /\ (req.cursor \in GoodCursors /\ req.limit \in AcceptableLimits)
                 => (res.err = ErrNone /\ res.useCursor = TRUE)

C2_Witness ==
    /\ Handled /\ flagAtCall = FALSE /\ env = EnvSet("false")
    /\ req.mode = "" /\ req.cursor = tokHello /\ req.limit = <<>>
    /\ res = [cursor |-> tokHello, limit |-> DefaultLimit, useCursor |-> TRUE, err |-> ErrNone]

(* C3 - without explicit mode and without cursor the resolved mode is the  *)
(* flag value the store reports at that moment, and without limit          *)
(* parameter the call succeeds with limit 16                               *)
C3_FlagIsTheDefault ==
    (Handled /\ req.mode = "" /\ req.cursor = <<>>)
        => /\ res.err = ErrNone => res.useCursor = flagAtCall
           /\ req.limit = <<>> =>
                res = [cursor |-> <<>>, limit |-> 16, useCursor |-> flagAtCall, err |-> ErrNone]

\* the flag came out of a cached snapshot that the environment no longer matches
C3_Witness ==
    /\ Handled /\ req = Request("", <<>>, <<>>)
    /\ flagAtCall = TRUE /\ res.useCursor = TRUE /\ res.limit = 16
    /\ globalConfig = Config(TRUE) /\ env = EnvSet("false")

(* C4 - a non-empty mode other than "cursor" and "legacy" fails with the   *)
(* invalid-pagination-mode error for every cursor, limit and flag          *)
C4_InvalidModeRejected ==
    (Handled /\ req.mode \notin {"", "cursor", "legacy"})
        => res = ErrorResult(ErrInvalidMode)

C4_Witness ==
    /\ Handled /\ flagAtCall = TRUE
    /\ req.mode = "Cursor" /\ req.cursor = tokTooLong /\ req.limit = limWord
    /\ res.err = ErrInvalidMode

(* C5 - every successful call returns a cursor that is empty or passes the *)
(* validator, in cursor mode and in legacy mode alike                      *)
C5_ReturnedCursorValidated ==
    Succeeded => (res.cursor = <<>> \/ validateCursor(res.cursor) = ErrNone)

(* C6 as stated - a cursor-mode request whose cursor fails validation gets *)
(* the validator's error, never a legacy success, and the returned tuple   *)
(* still carries the cursor-mode choice (useCursor = TRUE)                 *)
C6_ModeRecordedOnFailure ==
    (/\ Handled /\ req.cursor \in BadCursors
     /\ req.mode = "cursor" \/ req.mode = "")
        => /\ res.err = RejectionOf(req.cursor)
           /\ res.useCursor = TRUE

(* C6 amended - such a request gets the validator's error and no success   *)
(* of either mode; the returned tuple is the zero tuple (empty cursor,     *)
(* limit 0, useCursor = FALSE), so only the error tells the outcome        *)
C6_ValidatorErrorReturned ==
    (/\ Handled /\ req.cursor \in BadCursors
     /\ req.mode = "cursor" \/ req.mode = "")
        => res = ErrorResult(RejectionOf(req.cursor))

C6_Witness ==
    /\ Handled /\ req.mode = "cursor" /\ req.cursor = tokNullByte /\ req.limit = limFifty
    /\ res.err = ErrNullBytes /\ res.useCursor = FALSE

(* C7 - from one handled request to the next, under an unchanged flag      *)
(* value and whatever happened to the store, the clock, the environment    *)
(* and the file in between: the same query gets the same result, and two   *)
(* successful queries that agree on the explicit mode and on the presence  *)
(* of a cursor get the same mode, whatever their cursors and limits        *)
C7_ModeIsAFunction ==
    [][(Handled /\ flagAtCall' = flagAtCall)
         => /\ req' = req => res' = res
            /\ (/\ req'.mode = req.mode
                /\ (req'.cursor = <<>>) <=> (req.cursor = <<>>)
                /\ res.err = ErrNone /\ res'.err = ErrNone)
                  => res'.useCursor = res.useCursor]_vars

\* the same flag-dependent query was handled twice in a row, the second time
\* from a snapshot that the environment no longer matches
C7_Witness ==
    /\ repeated /\ req = Request("", <<>>, <<>>)
    /\ res.err = ErrNone /\ res.useCursor = TRUE
    /\ globalConfig = Config(TRUE) /\ env = EnvUnset /\ file = "disabled"

(* C8 - a limit spelling an integer n of 1..1024 never fails the limit     *)
(* block and every such request that reaches the block succeeds with       *)
(* exactly n; an absent limit gives 16; in cursor and in legacy mode alike *)
C8_LimitExactInRange ==
    Handled =>
        /\ \A n \in LimitInts :
              (1 <= n /\ n <= MaxLimit /\ req.limit \in Spellings(n))
                 => /\ res.err \notin LimitErrors
                    /\ res.err = ErrNone => res.limit = n
                    /\ ReachesLimit => (res.err = ErrNone /\ res.limit = n)
        /\ req.limit = <<>>
              => /\ res.err \notin LimitErrors
                 /\ res.err = ErrNone => res.limit = 16
                 /\ ReachesLimit => (res.err = ErrNone /\ res.limit = 16)

C8_Witness ==
    /\ Handled /\ req = Request("legacy", tokHello, FormatInt(MaxLimit))
    /\ res.err = ErrNone /\ res.useCursor = FALSE /\ res.limit = 1024

(* C9 as stated - every decimal integer above 1024 given as limit is       *)
(* clamped to 1024 without a limit error                                   *)
C9_EveryLargeLimitClamped ==
    (Handled /\ req.limit \in SpellingsIn(MaxLimit + 1, MaxLimit + NearMax) \cup LargeLimits)
        => /\ res.err \notin LimitErrors
           /\ ReachesLimit => (res.err = ErrNone /\ res.limit = MaxLimit)

(* C9 amended - every integer above 1024 that a signed 64-bit integer can  *)
(* hold (n <= 2^63 - 1) is clamped to 1024 without a limit error; a        *)
(* decimal integer of 2^63 or more is rejected as an invalid limit format  *)
C9_Int64LimitClamped ==
    Handled =>
        /\ req.limit \in SpellingsIn(MaxLimit + 1, MaxLimit + NearMax)
                         \cup {limTwoThousand, limMaxInt64}
              => /\ res.err \notin LimitErrors
                 /\ res.err = ErrNone => res.limit = MaxLimit
                 /\ ReachesLimit => (res.err = ErrNone /\ res.limit = MaxLimit)
        /\ (req.limit \in {limPastInt64, limTwentyNines} /\ ReachesLimit)
              => res = ErrorResult(ErrLimitFormat)

C9_Witness ==
    /\ Handled /\ req = Request("cursor", <<>>, limMaxInt64)
    /\ res.err = ErrNone /\ res.useCursor = TRUE /\ res.limit = 1024

(* C10 - a limit that spells a non-positive integer or is not a decimal    *)
(* integer always makes the call fail, with the limit block's own error    *)
(* whenever the request reaches that block; and no successful call         *)
(* returns a limit outside 1..1024                                         *)
C10_BadLimitRejected ==
    Handled =>
        /\ req.limit \in SpellingsIn(0 - SmallInts, 0) \cup {limMinInt64}
              => /\ res.err # ErrNone
                 /\ ReachesLimit => res = ErrorResult(ErrLimitNotPositive)
        /\ req.limit \in NonNumericLimits \cup {limBelowInt64}
              => /\ res.err # ErrNone
                 /\ ReachesLimit => res = ErrorResult(ErrLimitFormat)
        /\ res.err = ErrNone => (res.limit >= 1 /\ res.limit <= MaxLimit)

C10_Witness ==
    /\ Handled /\ req = Request("legacy", tokHello, limZero)
    /\ res = ErrorResult(ErrLimitNotPositive)

-----------------------------------------------------------------------------
(* The cursor validator                                                    *)

Validated == verdict # NoVerdict

\* the characters of either base64 alphabet
InSomeAlphabet(c) == stdDecodeMap(c) # 255 \/ urlDecodeMap(c) # 255

\* structural defects, each of which alone rules out both decodings: a
\* character that is in no alphabet and is neither padding nor a newline;
\* characters of the two alphabets mixed; a number of characters (newlines
\* aside) that is not a multiple of four; padding anywhere but in the last
\* one or two places
BadStructure(t) ==
    LET s == StripNewlines(t)
        n == Len(s)
    IN  \/ \E i \in 1..n : ~InSomeAlphabet(s[i]) /\ s[i] # 61
        \/ /\ \E i \in 1..n : s[i] \in {43, 47}
           /\ \E i \in 1..n : s[i] \in {45, 95}
        \/ n % 4 # 0
        \/ \E i \in 1..n : s[i] = 61 /\ i < n - 1
        \/ n >= 2 /\ s[n - 1] = 61 /\ s[n] # 61

DecodesNeither(t) == ~DecodeString("std", t).ok /\ ~DecodeString("url", t).ok

HasNullByte(b) == \E i \in 1..Len(b) : b[i] = 0

(* C11 - a token of more than 512 characters is rejected, with the         *)
(* too-long error, whatever it holds: also when its content would pass     *)
(* every other rule; a token of at most 512 characters is never rejected   *)
(* for its length                                                          *)
C11_TooLongRejected ==
    Validated =>
        /\ Len(token) > MaxCursorLength => verdict = ErrCursorTooLong
        /\ Len(token) <= MaxCursorLength => verdict # ErrCursorTooLong

\* 516 characters that decode to 387 bytes of plain ASCII
C11_Witness ==
    /\ token = tokLongValid /\ verdict = ErrCursorTooLong
    /\ decodeCursor(token).ok /\ Len(decodeCursor(token).bytes) <= MaxDecodedCursorLength

(* C12 - a non-empty token that decodes neither with the standard nor with *)
(* the URL-safe alphabet is rejected (as malformed base64 when it is short *)
(* enough to be decoded at all), in particular every token with a          *)
(* structural defect even if all its characters are alphabet characters;   *)
(* a token only the URL-safe alphabet decodes is not rejected as malformed *)
C12_MalformedRejected ==
    Validated =>
        /\ (token # <<>> /\ (DecodesNeither(token) \/ BadStructure(token)))
              => /\ verdict \in {ErrMalformedBase64, ErrCursorTooLong}
                 /\ Len(token) <= MaxCursorLength => verdict = ErrMalformedBase64
        /\ (~DecodeString("std", token).ok /\ DecodeString("url", token).ok)
              => verdict # ErrMalformedBase64

\* "AAAAAAA": alphabet characters only, seven of them
C12_Witness ==
    /\ token = tokMalformed /\ verdict = ErrMalformedBase64
    /\ \A i \in 1..Len(token) : InSomeAlphabet(token[i])

(* C13 - a token that decodes (with either alphabet) to bytes holding a    *)
(* null byte, at whatever position, is rejected: with the null-byte error  *)
(* when it passes the length rule                                          *)
C13_NullByteRejected ==
    (Validated /\ token # <<>> /\ decodeCursor(token).ok
               /\ HasNullByte(decodeCursor(token).bytes))
        => /\ verdict \in {ErrNullBytes, ErrCursorTooLong}
           /\ Len(token) <= MaxCursorLength => verdict = ErrNullBytes

\* the null byte is the last of three decoded bytes
C13_Witness ==
    /\ token = tokNullLast /\ verdict = ErrNullBytes
    /\ decodeCursor(token).bytes = <<65, 66, 0>>

-----------------------------------------------------------------------------
(* The feature-flag store, one caller at a time                            *)

Returned == returned # NoReturn

FlagOf(config) == config.Features.CursorPaginationEnabled

\* the flag the sources stand for: the variable when it is set (enabled only
\* for the literal "true"), otherwise the file (disabled when there is none)
SourcesSay(e, f) == IF e.set THEN e.value = "true" ELSE f = "enabled"

\* the file is there but loadFromFile fails on it
Unparseable(f) == f \in {"malformed", "conflicting"}

\* a snapshot is cached and its age is below the TTL
AgeBelowTTL == globalConfig # Nil /\ now - lastLoadTime < cacheTTL

(* C14 - a call made while the cached snapshot is younger than the TTL      *)
(* returns that snapshot and its flag and leaves the cache alone, whatever *)
(* the environment and the file have become; a call made when no snapshot  *)
(* is cached or the TTL has elapsed returns what the sources say now (if   *)
(* the file can be loaded) and caches it with the current time; and the    *)
(* cache changes only in calls: time passing, the environment and the file *)
(* do not touch it                                                         *)
C14_StaleUntilTTL ==
    [][/\ CallGetCursorPaginationEnabled =>
            IF AgeBelowTTL
            THEN /\ returned'.config = globalConfig
                 /\ returned'.err = ErrNone
                 /\ returned'.enabled = FlagOf(globalConfig)
                 /\ UNCHANGED <<globalConfig, lastLoadTime>>
            ELSE ~Unparseable(file) =>
                 /\ returned'.err = ErrNone
                 /\ returned'.enabled = SourcesSay(env, file)
                 /\ globalConfig' = Config(SourcesSay(env, file))
                 /\ lastLoadTime' = now
       /\ (Tick \/ Setenv \/ WriteConfigFile) => UNCHANGED <<globalConfig, lastLoadTime>>
      ]_vars

\* the call was served from a snapshot that says enabled although the
\* variable had already been set to "false"
C14_Witness ==
    /\ Returned /\ returned.hit /\ returned.enabled = TRUE
    /\ returned.env = EnvSet("false")
    /\ globalConfig = Config(TRUE) /\ now - lastLoadTime < cacheTTL

(* C16 - a call that reloads without error publishes and returns the value *)
(* of the variable (enabled only for the literal "true") whenever the      *)
(* variable is set, whatever the file holds, and the value of the file     *)
(* only when the variable is not set; and nothing else is ever published   *)
C16_EnvWinsOverFile ==
    [][CallGetCursorPaginationEnabled =>
          /\ (~returned'.hit /\ returned'.err = ErrNone)
                => /\ globalConfig' = returned'.config
                   /\ FlagOf(globalConfig') =
                         (IF env.set THEN env.value = "true" ELSE file = "enabled")
          /\ (globalConfig' # globalConfig \/ lastLoadTime' # lastLoadTime)
                => (~returned'.hit /\ returned'.err = ErrNone)
      ]_vars

\* the file enables the flag, the variable is set to "false": disabled is published
C16_Witness ==
    /\ Returned /\ ~returned.hit /\ returned.err = ErrNone
    /\ returned.env = EnvSet("false") /\ returned.file = "enabled"
    /\ FlagOf(returned.config) = FALSE /\ returned.enabled = FALSE
    /\ globalConfig = returned.config

(* C17 - when the reload fails on the file, the call returns the flag of   *)
(* the snapshot that is still cached, and false only when none is cached   *)
C17_ReloadErrorKeepsSnapshot ==
    [][(CallGetCursorPaginationEnabled /\ ~AgeBelowTTL /\ Unparseable(file))
          => returned'.enabled = (IF globalConfig # Nil THEN FlagOf(globalConfig) ELSE FALSE)
      ]_vars

(* C18 - with nothing cached, a call against a file that is present but    *)
(* cannot be loaded returns an error together with a config whose flag is  *)
(* disabled, and GetCursorPaginationEnabled returns false; a missing file  *)
(* is not an error                                                         *)
C18_ErrorCarriesDisabledConfig ==
    [][(CallGetCursorPaginationEnabled /\ globalConfig = Nil)
          => /\ Unparseable(file)
                   => /\ returned'.err # ErrNone
                      /\ FlagOf(returned'.config) = FALSE
                      /\ returned'.enabled = FALSE
             /\ file = "missing" => returned'.err = ErrNone
      ]_vars

-----------------------------------------------------------------------------
(* The feature-flag store under concurrent callers                         *)

\* the statements a goroutine executes while it holds the mutex
ReaderSection == {"check41", "runlock42", "runlock45"}
WriterSection == {"recheck52", "new56", "load63", "env76", "store80", "time81",
                  "unlock49", "clear111", "zero112", "unlock109"}

\* LoadFeatureFlags has returned a pointer to goroutine g
Holds(g) == pc[g] = "return98" /\ ptr[g] # Nil

(* C15 - a call that begins after InvalidateCache has returned never       *)
(* returns an instance that existed at that return, fresh or not, also     *)
(* while other goroutines call and reload; and at its return               *)
(* InvalidateCache leaves an empty cache, which no call takes for fresh    *)
C15_InvalidateForcesReload ==
    /\ [](\A g \in Goroutines :
            (ptr[g] # Nil /\ pc[g] \in {"runlock42", "unlock49", "return98"})
                => ptr[g].addr \notin forbidden[g])
    /\ [][\A g \in Goroutines :
            /\ InvUnlock(g) => (globalConfig' = Nil /\ lastLoadTime' = ZeroTime)
            /\ (CheckFresh(g) \/ Recheck(g)) /\ globalConfig = Nil => ptr'[g] = Nil
         ]_vars

\* g1 began its call after an invalidation that g2's instance had survived,
\* and got a different instance
C15_Witness ==
    /\ Holds("g1") /\ err["g1"] = ErrNone
    /\ forbidden["g1"] # {} /\ ptr["g1"].addr \notin forbidden["g1"]
    /\ ptr["g2"] # Nil /\ ptr["g2"].addr \in forbidden["g1"]
    /\ globalConfig = ptr["g1"]

(* C19 - a goroutine holds the mutex exactly while it is inside its        *)
(* critical section, so every way out of LoadFeatureFlags and              *)
(* InvalidateCache, the failed reload included, has released it, and when  *)
(* all calls have returned the mutex is free and no reload is under way;   *)
(* and every call that has begun returns                                   *)
C19_EveryCallReturns ==
    /\ [](\A g \in Goroutines :
            /\ g \in configMutex.writers <=> pc[g] \in WriterSection
            /\ g \in configMutex.readers <=> pc[g] \in ReaderSection)
    /\ []((\A g \in Goroutines : pc[g] \in {"idle", "return98"})
            => configMutex = [writers |-> {}, readers |-> {}])
    /\ \A g \in Goroutines : (pc[g] # "idle") ~> (pc[g] = "idle")

\* both goroutines found the cached snapshot expired; the reload of g1 has
\* failed on the file and g2 is waiting for the lock
C19_Witness ==
    /\ pc["g1"] = "unlock49" /\ err["g1"] # ErrNone
    /\ pc["g2"] = "lockwait48"
    /\ globalConfig # Nil /\ now - lastLoadTime >= cacheTTL

(* C20 - what a call returns is an instance whose construction is          *)
(* finished; no goroutine tests the freshness while another stands         *)
(* between the assignment of globalConfig and that of lastLoadTime; a      *)
(* finished instance never changes; and a reload publishes an instance     *)
(* that was not published or returned before                               *)
C20_SnapshotReplacedAtomically ==
    /\ [](\A g \in Goroutines :
            pc[g] = "return98"
                => /\ ptr[g] # Nil
                   /\ ptr[g].addr \in built
                   /\ heap[ptr[g].addr] \in {Config(TRUE), Config(FALSE)})
    /\ [](\A g \in Goroutines :
            pc[g] \in {"check41", "recheck52"}
                => /\ \A w \in Goroutines \ {g} : pc[w] \notin {"time81", "zero112"}
                   /\ globalConfig = Nil <=> lastLoadTime = ZeroTime)
    /\ [][/\ \A a \in built \cap built' : heap'[a] = heap[a]
          /\ \A g \in Goroutines :
                StoreConfig(g) => (globalConfig' # globalConfig /\ ptr[g].addr \notin built)
         ]_vars

\* g1 still holds the snapshot that said enabled, untouched, after g2 has
\* replaced it by one that says disabled
C20_Witness ==
    /\ Holds("g1") /\ err["g1"] = ErrNone
    /\ globalConfig # Nil /\ globalConfig # ptr["g1"]
    /\ heap[ptr["g1"].addr] = Config(TRUE)
    /\ heap[globalConfig.addr] = Config(FALSE)
    /\ pc["g2"] = "return98" /\ ptr["g2"] = globalConfig

(* C21 - while a goroutine performs the reload I/O (loadFromFile at line   *)
(* 63), the RLock of a call that arrives returns at once: the arriving     *)
(* call does not wait for the reload                                       *)
C21_ReloadNeverBlocksReaders ==
    \A g \in Goroutines : \A h \in Goroutines \ {g} :
        (pc[g] = "load63" /\ pc[h] = "rlock38")
            => CanRLock(configMutex, LockWaiters)

-----------------------------------------------------------------------------
(* The error classifier and the response to an expired token               *)

\* the classifier has run
Classified == kind # NoKind

\* two characters that differ at most in their case
SameLetter(a, b) ==
    a = b \/ \E i \in 1..26 : {a, b} = {upperLetters[i], lowerLetters[i]}

\* the text contains the phrase, in whatever case
Mentions(text, phrase) ==
    \E i \in 0..(Len(text) - Len(phrase)) :
        \A j \in 1..Len(phrase) : SameLetter(text[i + j], phrase[j])

\* the HTTP status code of the upstream answer the error carries (0: none)
UpstreamCode(e) ==
    IF e = NoError THEN 0
    ELSE IF e.status = NoStatus THEN 0
    ELSE e.status.code

\* what the error says: the text of err.Error() (nothing for nil)
UpstreamText(e) == IF e = NoError THEN <<>> ELSE ErrorText(e)

(* C22 - the kind is one of the four; nil gives Other; an error with the   *)
(* upstream status 410, also when wrapped, or a text that contains         *)
(* "continue token" and "expired" in any case, gives TokenExpired;         *)
(* otherwise a status 400 or a text that contains "invalid cursor" or      *)
(* "invalid token" gives InvalidCursor; otherwise a status 503 gives       *)
(* Unavailable and everything else Other (a text that has "invalid         *)
(* cursor" or "invalid token" only in another case is left open)           *)
C22_FirstMatchingRuleWins ==
    Classified =>
        LET text == UpstreamText(upstream)
            code == UpstreamCode(upstream)
            expired ==
                \/ code = 410
                \/ Mentions(text, strContinueToken) /\ Mentions(text, strExpired)
            invalid ==
                \/ code = 400
                \/ Contains(text, strInvalidCursor)
                \/ Contains(text, strInvalidToken)
            invalidInSomeCase ==
                Mentions(text, strInvalidCursor) \/ Mentions(text, strInvalidToken)
        IN  /\ kind \in {"TokenExpired", "InvalidCursor", "Unavailable", "Other"}
            /\ upstream = NoError => kind = "Other"
            /\ expired => kind = "TokenExpired"
            /\ (~expired /\ invalid) => kind = "InvalidCursor"
            /\ (~expired /\ ~invalid /\ ~invalidInSomeCase)
                    => kind = (IF code = 503 THEN "Unavailable" ELSE "Other")

\* the same error with nothing in its message
Silent(e) == Error(e.status, FALSE, <<>>)

(* C23 - an error that carries the upstream status 410, 400 or 503 gets    *)
(* the kind its status alone gives it (the kind of the same error with an  *)
(* empty message), whatever its message contains                           *)
C23_MessageNeverOverridesStatus ==
    (Classified /\ UpstreamCode(upstream) \in {410, 400, 503})
        => kind = classify(Silent(upstream))

(* C24 - what is written for an expired token has the status 410, the code *)
(* CONTINUE_TOKEN_EXPIRED, retryable = true, and carries retry guidance    *)
(* (a retryGuidance text or a retryAction) next to them                    *)
C24_ExpiredTokenAnswerGuidesRetry ==
    response # NoResponse =>
        /\ response.status = 410
        /\ response.code = "CONTINUE_TOKEN_EXPIRED"
        /\ "retryable" \in DOMAIN response.metadata
        /\ response.metadata.retryable = TRUE
        /\ \/ "retryGuidance" \in DOMAIN response.metadata
           \/ "retryAction" \in DOMAIN response.metadata

-----------------------------------------------------------------------------
(* Reloads of the feature-flag store                                       *)

\* the statements of a reload, from the new instance to its publication
ReloadSection == {"new56", "load63", "env76", "store80", "time81"}

\* the goroutines that are reloading
Reloading == {g \in Goroutines : pc[g] \in ReloadSection}

\* goroutine g missed, and while it waited for the lock another goroutine
\* ran loadFromFile less than the TTL ago, with an outcome among whats, and
\* nobody has emptied the cache since
WaitedThrough(g, whats) ==
    overtaken[g].what \in whats /\ now - overtaken[g].at < cacheTTL

(* C25 as stated - a goroutine that has missed and waited for the lock     *)
(* while another goroutine performed the reload I/O does not perform the   *)
(* reload I/O itself                                                       *)
C25_OnlyOneReloads ==
    \A g \in Goroutines :
        WaitedThrough(g, {"reloaded", "failed"}) => pc[g] \notin {"new56", "load63"}

(* C25 - a goroutine that has missed and waited for the lock while another *)
(* goroutine reloaded successfully does not reload itself, unless the TTL  *)
(* has elapsed again or the cache was emptied meanwhile; at most one       *)
(* goroutine reloads at a time, and none while a snapshot younger than the *)
(* TTL is cached; and a goroutine that finds such a snapshot at its        *)
(* re-check takes it and leaves the cache, the heap and the lock as they   *)
(* are                                                                     *)
C25_MissesCoalesce ==
    /\ [](\A g \in Goroutines :
            WaitedThrough(g, {"reloaded"}) => pc[g] \notin {"new56", "load63"})
    /\ [](Cardinality(Reloading) <= 1)
    /\ [](Reloading # {} => ~AgeBelowTTL)
    /\ [][\A g \in Goroutines :
            (Recheck(g) /\ AgeBelowTTL)
                => /\ pc'[g] = "unlock49"
                   /\ ptr'[g] = globalConfig
                   /\ UNCHANGED <<globalConfig, lastLoadTime, heap, configMutex>>
         ]_vars

\* both goroutines missed; g2 reloaded and has returned the new snapshot,
\* and g1, which waited for the lock, has taken the same snapshot at its
\* re-check
C25_Witness ==
    /\ pc["g1"] = "unlock49" /\ pc["g2"] = "return98"
    /\ err["g1"] = ErrNone /\ err["g2"] = ErrNone
    /\ globalConfig # Nil /\ ptr["g1"] = globalConfig /\ ptr["g2"] = globalConfig

(* C26 - a call whose reload fails on the file leaves the cached snapshot  *)
(* and its load time as they were; and a failure is never remembered: a    *)
(* call that finds no snapshot younger than the TTL fails exactly when the *)
(* file cannot be read or parsed at that moment, so after a failure every  *)
(* such call reloads again, and the first one that finds a loadable file   *)
(* publishes a snapshot with the current time                              *)
C26_FailedReloadLeavesCache ==
    [][CallGetCursorPaginationEnabled =>
          /\ returned'.err # ErrNone => UNCHANGED <<globalConfig, lastLoadTime>>
          /\ ~AgeBelowTTL => (returned'.err # ErrNone <=> Unparseable(file))
          /\ (Returned /\ returned.err # ErrNone /\ ~AgeBelowTTL /\ ~Unparseable(file))
                => /\ returned'.err = ErrNone
                   /\ globalConfig' = returned'.config
                   /\ lastLoadTime' = now
      ]_vars

\* the reload failed on a file that cannot be parsed, and the snapshot that
\* had expired before is still cached with its old load time
C26_Witness ==
    /\ Returned /\ returned.err # ErrNone /\ Unparseable(returned.file)
    /\ globalConfig = Config(TRUE)
    /\ now - lastLoadTime >= cacheTTL

-----------------------------------------------------------------------------
(* The content rules of the cursor validator                               *)

\* the bytes of the token, when one of the alphabets decodes it
Decoded == decodeCursor(token).bytes

(* C27 - a token that is accepted and decodes to at least one byte decodes *)
(* to well-formed UTF-8, as unicode/utf8.Valid defines it: no truncated    *)
(* encoding, no stray continuation byte, no overlong encoding, no          *)
(* surrogate and nothing above U+10FFFF                                    *)
C27_AcceptedIsValidUTF8 ==
    (Validated /\ verdict = ErrNone /\ decodeCursor(token).ok /\ Len(Decoded) > 0)
        => isValidUTF8(Decoded)

(* C28 - a token of at most 512 characters that one of the alphabets       *)
(* decodes has at most 384 decoded bytes; no token is rejected by the      *)
(* decoded-length rule; and a token that decodes to more than 512 bytes is *)
(* rejected by the encoded-length rule                                     *)
C28_DecodedLengthRuleNeverFires ==
    Validated =>
        /\ (Len(token) <= MaxCursorLength /\ decodeCursor(token).ok)
                => Len(Decoded) <= (MaxCursorLength \div 4) * 3
        /\ verdict # ErrDecodedTooLong
        /\ (decodeCursor(token).ok /\ Len(Decoded) > MaxDecodedCursorLength)
                => verdict = ErrCursorTooLong

\* 688 characters of valid base64 whose 516 decoded bytes exceed the decoded
\* maximum: rejected for the encoded length
C28_Witness ==
    /\ token = tokHugeValid /\ verdict = ErrCursorTooLong
    /\ decodeCursor(token).ok
    /\ Len(Decoded) > MaxDecodedCursorLength
    /\ ~HasNullByte(Decoded) /\ isValidUTF8(Decoded)

=============================================================================
